---- MODULE Spec2Model ----
(***************************************************************************)
(* Model of weave-js SmallRef.tsx: the reference label formatter           *)
(* objectRefDisplayName and the reference chip components SmallRef,        *)
(* SmallArtifactRef and SmallWeaveRef.                                     *)
(*                                                                         *)
(* JavaScript strings are sequences of one-character strings, so that      *)
(* slice, split, join and concatenation are computed and not assumed.      *)
(* Fixed UI texts ("Loading...", the tooltip prefix) are one-element       *)
(* sequences holding the whole text.                                       *)
(***************************************************************************)
EXTENDS Integers, Sequences, FiniteSets, TLC

VARIABLES objRef, iconOnly, pageUrl, mounted, artQ, objQ, opQ, typeQ, output,
          versionIndex, fmtResult

vars == <<objRef, iconOnly, pageUrl, mounted, artQ, objQ, opQ, typeQ, output,
          versionIndex, fmtResult>>

renderVars == <<iconOnly, pageUrl, mounted, artQ, objQ, opQ, typeQ, output>>

(***************************************************************************)
(* Bounds of the model.                                                    *)
(***************************************************************************)
MaxSegs == 4
MaxRenderSegs == 2
MaxVersionLen == 7
MaxIndex == 10
MaxVersionIndex == 1

(***************************************************************************)
(* JavaScript values.                                                      *)
(***************************************************************************)
\* undefined / null for a string-valued field
Undefined == <<"undefined">>
\* undefined / null for a number-valued field
undefinedIndex == -1
\* the default artifact path 'obj'
DefaultPath == <<"o", "b", "j">>
\* the length of the version hash prefix, slice(0, 6)
HashPrefixLen == 6

Truthy(s) == s # Undefined /\ s # <<>>

Min(a, b) == IF a < b THEN a ELSE b

\* String.prototype.slice(0, n)
slice(s, n) == SubSeq(s, 1, Min(n, Len(s)))

DigitChar(d) == <<"0", "1", "2", "3", "4", "5", "6", "7", "8", "9">>[d + 1]

\* `${n}` for a non-negative integer n
RECURSIVE numberToString(_)
numberToString(n) ==
  IF n < 10 THEN <<DigitChar(n)>>
            ELSE numberToString(n \div 10) \o <<DigitChar(n % 10)>>

\* String.prototype.split('/')
RECURSIVE split(_)
split(s) ==
  IF \A i \in 1..Len(s) : s[i] # "/"
    THEN <<s>>
    ELSE LET k == CHOOSE i \in 1..Len(s) :
                     s[i] = "/" /\ \A j \in 1..(i - 1) : s[j] # "/"
         IN  <<SubSeq(s, 1, k - 1)>> \o split(SubSeq(s, k + 1, Len(s)))

\* Array.prototype.join('/')
RECURSIVE join(_)
join(parts) ==
  IF Len(parts) = 0 THEN <<>>
  ELSE IF Len(parts) = 1 THEN parts[1]
  ELSE parts[1] \o <<"/">> \o join(Tail(parts))

(***************************************************************************)
(* Reference descriptors.                                                  *)
(***************************************************************************)
isWandbArtifactRef(ref) == ref.scheme = "wandb-artifact"

isWeaveObjectRef(ref) == ref.scheme = "weave"

(***************************************************************************)
(* objectRefDisplayName                                                    *)
(***************************************************************************)
\* the loop `for (let i = 1; i < parts.length; i += 2) newParts.push(parts[i])`
\* (i is the 0-based index of the code)
RECURSIVE newParts(_, _)
newParts(parts, i) ==
  IF i < Len(parts) THEN <<parts[i + 1]>> \o newParts(parts, i + 2)
                    ELSE <<>>

versionStrFalsyIndex(ref, idx) ==
  IF idx # undefinedIndex /\ idx # 0
    THEN <<"v">> \o numberToString(idx)
    ELSE slice(ref.artifactVersion, HashPrefixLen)

versionStr(ref, idx) ==
  IF idx # undefinedIndex
    THEN <<"v">> \o numberToString(idx)
    ELSE slice(ref.artifactVersion, HashPrefixLen)

pathPartTruthy(ref) ==
  IF Truthy(ref.artifactPath) /\ ref.artifactPath # DefaultPath
    THEN <<"/">> \o ref.artifactPath
    ELSE <<>>

pathPart(ref) ==
  IF ref.artifactPath # DefaultPath THEN <<"/">> \o ref.artifactPath
                                    ELSE <<>>

extraPartFromZero(ref) ==
  IF Truthy(ref.artifactRefExtra)
    THEN <<"#">> \o join(newParts(split(ref.artifactRefExtra), 0))
    ELSE <<>>

extraPart(ref) ==
  IF Truthy(ref.artifactRefExtra)
    THEN <<"#">> \o join(newParts(split(ref.artifactRefExtra), 1))
    ELSE <<>>

weaveExtraPartLikeArtifact(ref) == extraPart(ref)

weaveExtraPart(ref) ==
  IF Truthy(ref.artifactRefExtra) THEN <<"/">> \o ref.artifactRefExtra
                                  ELSE <<>>

Returned(label) == [kind |-> "return", label |-> label]
Thrown == [kind |-> "throw", label |-> <<>>]
NotCalled == [kind |-> "notcalled", label |-> <<>>]

objectRefDisplayNameNoThrow(ref, idx) ==
  IF isWandbArtifactRef(ref)
    THEN Returned(ref.artifactName \o <<":">> \o versionStr(ref, idx)
                    \o pathPart(ref) \o extraPart(ref))
    ELSE Returned(ref.artifactName \o <<":">> \o versionStr(ref, idx)
                    \o weaveExtraPart(ref))

objectRefDisplayName(ref, idx) ==
  IF isWandbArtifactRef(ref)
    THEN Returned(ref.artifactName \o <<":">> \o versionStr(ref, idx)
                    \o pathPart(ref) \o extraPart(ref))
  ELSE IF isWeaveObjectRef(ref)
    THEN Returned(ref.artifactName \o <<":">> \o versionStr(ref, idx)
                    \o weaveExtraPart(ref))
  ELSE Thrown

(***************************************************************************)
(* Inputs: the reference descriptors the label formatter and the chip are  *)
(* given.                                                                  *)
(***************************************************************************)
FullHash == <<"a", "b", "c", "d", "e", "f", "1", "2", "3", "4">>

Names == {<<"m">>}

Versions == {SubSeq(FullHash, 1, n) : n \in 0..MaxVersionLen}

Paths == {DefaultPath, <<>>, <<"p">>, <<"o", "b">>}

SegAlphabet == {<<>>, <<"a">>, <<"b", "c">>}

\* the qualifiers made of 1..n segments, and the absent qualifier
Extras(n) ==
  {Undefined} \cup
  UNION {{join(segs) : segs \in [1..k -> SegAlphabet]} : k \in 1..n}

ArtifactRefs(n) ==
  [scheme : {"wandb-artifact"}, artifactName : Names,
   artifactVersion : Versions, artifactPath : Paths,
   artifactRefExtra : Extras(n), weaveKind : {"none"}]

WeaveRefs(n) ==
  [scheme : {"weave"}, artifactName : Names,
   artifactVersion : Versions, artifactPath : {Undefined},
   artifactRefExtra : Extras(n), weaveKind : {"object", "op"}]

OtherRefs(n) ==
  [scheme : {"local-artifact"}, artifactName : Names,
   artifactVersion : Versions, artifactPath : {DefaultPath, <<"p">>},
   artifactRefExtra : Extras(Min(n, 1)), weaveKind : {"none"}]

ObjectRefs(n) == ArtifactRefs(n) \cup WeaveRefs(n) \cup OtherRefs(n)

IndexValues == {undefinedIndex, 0, 1, MaxIndex}

\* a type is the chain of its name and the names of its _base_type ancestors
TypeChains ==
  {<<"Dataset", "Object">>, <<"MyDataset", "Dataset", "Object">>,
   <<"Model", "Object">>, <<"Sub", "Model">>, <<"List">>, <<"OpDef">>,
   <<"Object">>, <<"Foo", "Bar", "Object">>, <<"unknown">>}

\* what fetchArtifactRefPageUrl can hand back: null, '' or a URL
UrlResults == {Undefined, <<>>, <<"https://wandb.ai/artifact">>}

(***************************************************************************)
(* The chip components.                                                    *)
(***************************************************************************)
RECURSIVE getRootType(_)
getRootType(t) ==
  IF Len(t) > 1 /\ t[2] # "Object" THEN getRootType(Tail(t)) ELSE t

getTypeName(t) == t[1]

SmallRefBox(iconName, text, io) ==
  [icon |-> iconName, text |-> text, textShown |-> ~io]

NoBox == [icon |-> "none", text |-> <<>>, textShown |-> FALSE]

NoOutput ==
  [kind |-> "none", chip |-> "none", box |-> NoBox, href |-> Undefined,
   cursor |-> "default", title |-> Undefined, newTabIcon |-> FALSE,
   rootTypeName |-> "none", formatter |-> "notcalled"]

Idle == [status |-> "idle", result |-> "null"]
IdleIndex == [status |-> "idle", result |-> undefinedIndex]
IdleType == [status |-> "idle", result |-> <<>>]

NoLinkTitle == <<"No link detected for this wandb artifact reference: ">>

artifactUrlIgnoringInfo(aq, url) == url

\* artInfo ? fetchArtifactRefPageUrl({...}) : null
artifactUrl(aq, url) == IF aq.result # "null" THEN url ELSE Undefined

SmallArtifactRef(ref, aq, url) ==
  IF aq.status = "loading"
    THEN [NoOutput EXCEPT !.kind = "box", !.chip = "artifact",
            !.box = SmallRefBox("Loading", <<"Loading...">>, FALSE)]
    ELSE LET u == artifactUrl(aq, url)
             content ==
               [NoOutput EXCEPT
                  !.kind = "content", !.chip = "artifact",
                  !.cursor = IF Truthy(u) THEN "pointer" ELSE "not-allowed",
                  !.title = IF Truthy(u) THEN ref.artifactPath
                            ELSE NoLinkTitle \o ref.artifactPath,
                  !.box = SmallRefBox("Registries",
                            ref.artifactName \o <<":">> \o ref.artifactVersion,
                            FALSE),
                  !.newTabIcon = Truthy(u)]
         IN  IF Truthy(u)
               THEN [content EXCEPT !.kind = "link", !.href = u]
               ELSE content

\* objectVersion.result?.versionIndex ?? opVersion.result?.versionIndex
weaveVersionIndexObjectOnly(oq, pq) == oq.result

weaveVersionIndex(oq, pq) ==
  IF oq.result # undefinedIndex THEN oq.result ELSE pq.result

refType(tq) ==
  IF tq.status = "loading" \/ tq.result = <<>> THEN <<"unknown">>
                                               ELSE tq.result

rootTypeOf(ref, tq) ==
  IF ref.scheme = "weave" /\ ref.weaveKind = "op" THEN <<"OpDef">>
                                                  ELSE getRootType(refType(tq))

iconForNoOpDef(rootTypeName) ==
  IF rootTypeName = "Dataset" THEN "Table"
  ELSE IF rootTypeName = "Model" THEN "Model"
  ELSE IF rootTypeName = "List" THEN "List"
  ELSE "CubeContainer"

iconFor(rootTypeName) ==
  IF rootTypeName = "Dataset" THEN "Table"
  ELSE IF rootTypeName = "Model" THEN "Model"
  ELSE IF rootTypeName = "List" THEN "List"
  ELSE IF rootTypeName = "OpDef" THEN "JobProgramCode"
  ELSE "CubeContainer"

weaveItem(ref, oq, pq, tq, io) ==
  LET r == objectRefDisplayName(ref, weaveVersionIndex(oq, pq))
      rootTypeName == getTypeName(rootTypeOf(ref, tq))
  IN  IF r.kind = "throw"
        THEN [NoOutput EXCEPT !.kind = "crash", !.chip = "weave",
                              !.formatter = "threw"]
        ELSE [NoOutput EXCEPT
                !.kind = "box", !.chip = "weave", !.formatter = "returned",
                !.rootTypeName = rootTypeName,
                !.box = SmallRefBox(iconFor(rootTypeName), r.label, io)]

SmallWeaveRefAlwaysLinked(ref, oq, pq, tq, io) ==
  LET Item == weaveItem(ref, oq, pq, tq, io)
  IN  IF Item.kind = "crash" THEN Item
      ELSE [Item EXCEPT !.kind = "link",
                        !.href = <<"refUIUrl", Item.rootTypeName>>]

SmallWeaveRef(ref, oq, pq, tq, io) ==
  LET Item == weaveItem(ref, oq, pq, tq, io)
  IN  IF Item.kind = "crash" \/ tq.status = "loading" THEN Item
      ELSE [Item EXCEPT !.kind = "link",
                        !.href = <<"refUIUrl", Item.rootTypeName>>]

SmallRefNoGuard(ref, io, url, aq, oq, pq, tq) ==
  IF isWandbArtifactRef(ref) THEN SmallArtifactRef(ref, aq, url)
  ELSE SmallWeaveRef(ref, oq, pq, tq, io)

SmallRef(ref, io, url, aq, oq, pq, tq) ==
  IF ~isWandbArtifactRef(ref) /\ ~isWeaveObjectRef(ref)
    THEN [NoOutput EXCEPT !.kind = "error",
                          !.box = [NoBox EXCEPT
                                     !.text = <<"[Error: non wandb ref]">>,
                                     !.textShown = TRUE]]
  ELSE IF isWandbArtifactRef(ref) THEN SmallArtifactRef(ref, aq, url)
  ELSE SmallWeaveRef(ref, oq, pq, tq, io)

(***************************************************************************)
(* The chip as a state machine: the first render starts the lookups of     *)
(* the chip it dispatches to; each lookup that resolves re-renders it.     *)
(***************************************************************************)
Init ==
  /\ objRef \in ObjectRefs(MaxRenderSegs)
  /\ iconOnly \in BOOLEAN
  /\ pageUrl \in IF isWandbArtifactRef(objRef) THEN UrlResults ELSE {Undefined}
  /\ mounted = FALSE
  /\ artQ = Idle
  /\ objQ = IdleIndex
  /\ opQ = IdleIndex
  /\ typeQ = IdleType
  /\ output = NoOutput
  /\ versionIndex = undefinedIndex
  /\ fmtResult = NotCalled

Mount ==
  /\ ~mounted
  /\ mounted' = TRUE
  /\ artQ' = IF isWandbArtifactRef(objRef)
               THEN [Idle EXCEPT !.status = "loading"] ELSE Idle
  /\ objQ' = IF isWandbArtifactRef(objRef) \/ ~isWeaveObjectRef(objRef)
               THEN IdleIndex
             ELSE IF objRef.weaveKind = "op"
               THEN [IdleIndex EXCEPT !.status = "skipped"]
             ELSE [IdleIndex EXCEPT !.status = "loading"]
  /\ opQ' = IF isWandbArtifactRef(objRef) \/ ~isWeaveObjectRef(objRef)
              THEN IdleIndex
            ELSE IF objRef.weaveKind = "op"
              THEN [IdleIndex EXCEPT !.status = "loading"]
            ELSE [IdleIndex EXCEPT !.status = "skipped"]
  /\ typeQ' = IF isWandbArtifactRef(objRef) \/ ~isWeaveObjectRef(objRef)
                THEN IdleType ELSE [IdleType EXCEPT !.status = "loading"]
  /\ output' = SmallRef(objRef, iconOnly, pageUrl, artQ', objQ', opQ', typeQ')
  /\ UNCHANGED <<objRef, iconOnly, pageUrl, versionIndex, fmtResult>>

ArtifactInfoResolves ==
  /\ artQ.status = "loading"
  /\ \E info \in {"null", "info"} :
       artQ' = [status |-> "done", result |-> info]
  /\ output' = SmallRef(objRef, iconOnly, pageUrl, artQ', objQ, opQ, typeQ)
  /\ UNCHANGED <<objRef, iconOnly, pageUrl, mounted, objQ, opQ, typeQ,
                 versionIndex, fmtResult>>

ObjectVersionResolves ==
  /\ objQ.status = "loading"
  /\ \E idx \in {undefinedIndex} \cup 0..MaxVersionIndex :
       objQ' = [status |-> "done", result |-> idx]
  /\ output' = SmallRef(objRef, iconOnly, pageUrl, artQ, objQ', opQ, typeQ)
  /\ UNCHANGED <<objRef, iconOnly, pageUrl, mounted, artQ, opQ, typeQ,
                 versionIndex, fmtResult>>

OpVersionResolves ==
  /\ opQ.status = "loading"
  /\ \E idx \in {undefinedIndex} \cup 0..MaxVersionIndex :
       opQ' = [status |-> "done", result |-> idx]
  /\ output' = SmallRef(objRef, iconOnly, pageUrl, artQ, objQ, opQ', typeQ)
  /\ UNCHANGED <<objRef, iconOnly, pageUrl, mounted, artQ, objQ, typeQ,
                 versionIndex, fmtResult>>

RefsTypeResolves ==
  /\ typeQ.status = "loading"
  /\ \E t \in {<<>>} \cup TypeChains :
       typeQ' = [status |-> "done", result |-> t]
  /\ output' = SmallRef(objRef, iconOnly, pageUrl, artQ, objQ, opQ, typeQ')
  /\ UNCHANGED <<objRef, iconOnly, pageUrl, mounted, artQ, objQ, opQ,
                 versionIndex, fmtResult>>

\* the parent renders the chip again, with the same or another iconOnly
ParentRerender ==
  /\ mounted
  /\ iconOnly' \in BOOLEAN
  /\ output' = SmallRef(objRef, iconOnly', pageUrl, artQ, objQ, opQ, typeQ)
  /\ UNCHANGED <<objRef, pageUrl, mounted, artQ, objQ, opQ, typeQ,
                 versionIndex, fmtResult>>

Next ==
  \/ Mount
  \/ ArtifactInfoResolves
  \/ ObjectVersionResolves
  \/ OpVersionResolves
  \/ RefsTypeResolves
  \/ ParentRerender

Spec == Init /\ [][Next]_vars

(***************************************************************************)
(* The label formatter called on its own, on every reference and index.    *)
(***************************************************************************)
InitFmt ==
  /\ objRef \in ObjectRefs(MaxSegs)
  /\ versionIndex \in IndexValues
  /\ fmtResult = NotCalled
  /\ iconOnly = FALSE
  /\ pageUrl = Undefined
  /\ mounted = FALSE
  /\ artQ = Idle
  /\ objQ = IdleIndex
  /\ opQ = IdleIndex
  /\ typeQ = IdleType
  /\ output = NoOutput

CallObjectRefDisplayName ==
  /\ fmtResult = NotCalled
  /\ fmtResult' = objectRefDisplayName(objRef, versionIndex)
  /\ UNCHANGED <<objRef, versionIndex>>
  /\ UNCHANGED renderVars

NextFmt == CallObjectRefDisplayName

SpecFmt == InitFmt /\ [][NextFmt]_vars

(***************************************************************************)
(* Properties of objectRefDisplayName, checked under SpecFmt.              *)
(***************************************************************************)
IsDigit(c) == c \in {"0", "1", "2", "3", "4", "5", "6", "7", "8", "9"}

DigitValue(c) == CHOOSE d \in 0..9 : DigitChar(d) = c

\* the number a sequence of decimal digits denotes, -1 when it is no number
RECURSIVE DecimalValue(_)
DecimalValue(ds) ==
  IF Len(ds) = 0 \/ \E i \in 1..Len(ds) : ~IsDigit(ds[i]) THEN -1
  ELSE IF Len(ds) = 1 THEN DigitValue(ds[1])
  ELSE 10 * DecimalValue(SubSeq(ds, 1, Len(ds) - 1)) + DigitValue(ds[Len(ds)])

\* the length the version part of the label should have
ExpectedVersionLen ==
  IF versionIndex = undefinedIndex
    THEN (IF Len(objRef.artifactVersion) < 6
            THEN Len(objRef.artifactVersion) ELSE 6)
    ELSE 1 + Cardinality({p \in {1, 10, 100, 1000} :
                            p = 1 \/ p <= versionIndex})

\* the label after '<artifactName>:'
AfterName(l) == SubSeq(l, Len(objRef.artifactName) + 2, Len(l))

\* the label after '<artifactName>:<version part>'
AfterVersion(l) == SubSeq(AfterName(l), ExpectedVersionLen + 1,
                          Len(AfterName(l)))

\* the label after the '/<path>' an artifact reference with a non-default
\* path gets
AfterPath(l) ==
  IF objRef.artifactPath = <<"o", "b", "j">> THEN AfterVersion(l)
  ELSE SubSeq(AfterVersion(l), Len(objRef.artifactPath) + 2,
              Len(AfterVersion(l)))

\* the segments at the 0-based positions 1, 3, 5, ... of a qualifier
OddSegments(extra) ==
  [k \in 1..(Len(split(extra)) \div 2) |-> split(extra)[2 * k]]

\* a label tail is '#' followed by the given segments joined by '/'
IsHashJoined(tail, segs) ==
  /\ Len(tail) >= 1
  /\ tail[1] = "#"
  /\ IF Len(segs) = 0 THEN Len(tail) = 1
                      ELSE split(SubSeq(tail, 2, Len(tail))) = segs

\* C1: the label of a recognised reference starts with '<artifactName>:'
\* followed by 'v<index>' when a version index (0 included) is supplied,
\* and by the first 6 characters of the version string (all of it when it
\* is shorter) when none is.
C1_VersionPart ==
  fmtResult.kind = "return" =>
    LET l == fmtResult.label
        n == Len(objRef.artifactName)
        v == SubSeq(AfterName(l), 1, ExpectedVersionLen)
    IN  /\ Len(l) >= n + 1 + ExpectedVersionLen
        /\ SubSeq(l, 1, n) = objRef.artifactName
        /\ l[n + 1] = ":"
        /\ IF versionIndex # undefinedIndex
             THEN /\ v[1] = "v"
                  /\ DecimalValue(Tail(v)) = versionIndex
             ELSE /\ Len(v) <= 6
                  /\ Len(v) = 6 \/ Len(v) = Len(objRef.artifactVersion)
                  /\ \A i \in 1..Len(v) : v[i] = objRef.artifactVersion[i]
        /\ \/ AfterVersion(l) = <<>>
           \/ AfterVersion(l)[1] \in {"/", "#"}

C1_Witness ==
  /\ fmtResult.kind = "return"
  /\ versionIndex = 0
  /\ Len(objRef.artifactVersion) > 6
  /\ AfterName(fmtResult.label)[1] = "v"

\* C2: for an artifact reference the path is appended as '/' + path right
\* after the version part and before any '#' part whenever it differs from
\* "obj" (the empty path included); nothing is appended for "obj".
C2_ArtifactPath ==
  (fmtResult.kind = "return" /\ isWandbArtifactRef(objRef)) =>
    LET t == AfterVersion(fmtResult.label)
        p == objRef.artifactPath
    IN  /\ p # <<"o", "b", "j">> =>
             /\ Len(t) >= Len(p) + 1
             /\ t[1] = "/"
             /\ SubSeq(t, 2, Len(p) + 1) = p
        /\ AfterPath(fmtResult.label) = <<>>
             \/ AfterPath(fmtResult.label)[1] = "#"

C2_Witness ==
  /\ fmtResult.kind = "return"
  /\ isWandbArtifactRef(objRef)
  /\ objRef.artifactPath = <<>>
  /\ objRef.artifactRefExtra = <<"a", "/", "a">>
  /\ AfterVersion(fmtResult.label) = <<"/", "#", "a">>

\* C3: for an artifact reference with a non-empty qualifier the label ends
\* in '#' followed by the qualifier's segments at the odd positions, in
\* order, joined by '/'; with an absent or empty qualifier nothing follows
\* the path part.
C3_ArtifactExtra ==
  (fmtResult.kind = "return" /\ isWandbArtifactRef(objRef)) =>
    IF objRef.artifactRefExtra # Undefined /\ objRef.artifactRefExtra # <<>>
      THEN IsHashJoined(AfterPath(fmtResult.label),
                        OddSegments(objRef.artifactRefExtra))
      ELSE AfterPath(fmtResult.label) = <<>>

C3_Witness ==
  /\ fmtResult.kind = "return"
  /\ isWandbArtifactRef(objRef)
  /\ objRef.artifactRefExtra = <<"a", "/", "b", "c", "/", "a", "/", "a">>
  /\ AfterPath(fmtResult.label) = <<"#", "b", "c", "/", "a">>

\* C4: called with a reference that is neither an artifact reference nor a
\* weave object reference, objectRefDisplayName throws and returns no
\* label, with or without a version index.
C4_UnknownRefThrows ==
  (fmtResult # NotCalled /\ objRef.scheme \notin {"wandb-artifact", "weave"})
    => (fmtResult.kind = "throw" /\ fmtResult.label = <<>>)

C4_Witness ==
  /\ fmtResult.kind = "throw"
  /\ objRef.scheme = "local-artifact"
  /\ versionIndex = 1

\* C10 as stated: for a weave object reference with a non-empty qualifier
\* the label ends in '#' followed by the odd-position segments.
C10_WeaveExtraAsArtifact ==
  (fmtResult.kind = "return" /\ isWeaveObjectRef(objRef)
     /\ objRef.artifactRefExtra # Undefined /\ objRef.artifactRefExtra # <<>>)
    => IsHashJoined(AfterVersion(fmtResult.label),
                    OddSegments(objRef.artifactRefExtra))

\* C10 amended: for a weave object reference with a non-empty qualifier the
\* label ends in '/' followed by the whole qualifier, no segment dropped;
\* with an absent or empty qualifier nothing follows the version part.
C10_WeaveExtraWhole ==
  (fmtResult.kind = "return" /\ isWeaveObjectRef(objRef)) =>
    IF objRef.artifactRefExtra # Undefined /\ objRef.artifactRefExtra # <<>>
      THEN /\ AfterVersion(fmtResult.label)[1] = "/"
           /\ Tail(AfterVersion(fmtResult.label)) = objRef.artifactRefExtra
      ELSE AfterVersion(fmtResult.label) = <<>>

C10_Witness ==
  /\ fmtResult.kind = "return"
  /\ isWeaveObjectRef(objRef)
  /\ objRef.artifactRefExtra = <<"a", "/", "b", "c", "/", "a", "/", "a">>
  /\ AfterVersion(fmtResult.label) =
       <<"/", "a", "/", "b", "c", "/", "a", "/", "a">>

(***************************************************************************)
(* Properties of the chip, checked under Spec.                             *)
(***************************************************************************)
Recognised == objRef.scheme \in {"wandb-artifact", "weave"}

AnyPending ==
  \/ artQ.status = "loading"
  \/ objQ.status = "loading"
  \/ opQ.status = "loading"
  \/ typeQ.status = "loading"

IsLoadingPlaceholder ==
  /\ output.box.icon = "Loading"
  /\ output.box.text = <<"Loading...">>

\* C5: SmallRef of an unrecognised reference shows '[Error: non wandb ref]',
\* starts no lookup and does not call the label formatter; a recognised
\* reference goes to exactly the chip of its variant, and no render crashes.
C5_UnknownRefError ==
  mounted =>
    /\ output.kind # "crash"
    /\ output.formatter # "threw"
    /\ ~Recognised =>
         /\ output.kind = "error"
         /\ output.chip = "none"
         /\ output.box.text = <<"[Error: non wandb ref]">>
         /\ output.box.textShown
         /\ output.formatter = "notcalled"
         /\ artQ.status = "idle" /\ objQ.status = "idle"
         /\ opQ.status = "idle" /\ typeQ.status = "idle"
    /\ objRef.scheme = "wandb-artifact" => output.chip = "artifact"
    /\ objRef.scheme = "weave" => output.chip = "weave"

C5_Witness ==
  /\ mounted
  /\ objRef.scheme = "local-artifact"
  /\ output.kind = "error"

\* C6 as stated: while any lookup of the chip is pending its output is the
\* loading placeholder without a hyperlink, and a hyperlink appears only
\* when every lookup has resolved.
C6_PlaceholderWhileAnyPending ==
  (mounted /\ Recognised) =>
    /\ AnyPending => (IsLoadingPlaceholder /\ output.kind # "link")
    /\ output.kind = "link" => ~AnyPending

\* C6 amended: while the artifact metadata lookup is pending the artifact
\* chip is the loading placeholder without a hyperlink; while the type
\* lookup is pending the weave-object chip has no hyperlink (it shows its
\* icon and label); a hyperlink appears only once the metadata lookup
\* (artifact chip) or the type lookup (weave-object chip) has resolved.
C6_NoLinkWhileGatingLookupPending ==
  (mounted /\ Recognised) =>
    /\ artQ.status = "loading" =>
         /\ IsLoadingPlaceholder
         /\ output.kind = "box"
         /\ output.href = Undefined
    /\ typeQ.status = "loading" =>
         /\ output.kind = "box"
         /\ output.href = Undefined
    /\ output.kind = "link" =>
         /\ artQ.status # "loading"
         /\ typeQ.status # "loading"

C6_Witness ==
  /\ mounted
  /\ objRef.scheme = "weave"
  /\ typeQ.status = "loading"
  /\ objQ.status = "done"
  /\ output.kind = "box"
  /\ output.box.icon = "CubeContainer"

\* C7: once the artifact metadata lookup has finished, the artifact chip is
\* a hyperlink (pointer cursor, open-in-new-tab icon, tooltip = artifact
\* path) exactly when metadata was found and the URL builder gave a URL;
\* otherwise it has no link, cursor 'not-allowed' and the tooltip
\* 'No link detected for this wandb artifact reference: <path>'.
C7_ArtifactLinkIffUrl ==
  (mounted /\ objRef.scheme = "wandb-artifact" /\ artQ.status = "done") =>
    LET resolved == /\ artQ.result = "info"
                    /\ pageUrl # Undefined
                    /\ pageUrl # <<>>
    IN  /\ output.kind = "link" <=> resolved
        /\ resolved =>
             /\ output.href = pageUrl
             /\ output.cursor = "pointer"
             /\ output.newTabIcon
             /\ output.title = objRef.artifactPath
        /\ ~resolved =>
             /\ output.kind = "content"
             /\ output.href = Undefined
             /\ output.cursor = "not-allowed"
             /\ ~output.newTabIcon
             /\ output.title =
                  <<"No link detected for this wandb artifact reference: ">>
                    \o objRef.artifactPath

C7_Witness ==
  /\ mounted
  /\ objRef.scheme = "wandb-artifact"
  /\ artQ.status = "done"
  /\ artQ.result = "null"
  /\ pageUrl = <<"https://wandb.ai/artifact">>
  /\ output.cursor = "not-allowed"

\* the version index the lookups of the weave-object chip have resolved
ResolvedIndex ==
  IF objRef.scheme = "weave"
    THEN (IF objRef.weaveKind = "op" THEN opQ.result ELSE objQ.result)
    ELSE undefinedIndex

\* C8 as stated: once loading has finished, the text of the chip of any
\* recognised reference is the label objectRefDisplayName gives for the
\* reference and its resolved version index.
C8_TextIsFormatterLabel ==
  (mounted /\ Recognised /\ ~AnyPending) =>
    output.box.text = objectRefDisplayName(objRef, ResolvedIndex).label

\* C8 amended: once loading has finished, the text handed to the box of a
\* weave-object chip is '<name>:' + ('v<index>' for a resolved version
\* index, else the 6-character version prefix) + ('/' + qualifier when it
\* is non-empty); the text of an artifact chip is '<name>:' + the whole
\* version string, without path or qualifier.
C8_ChipText ==
  (mounted /\ Recognised /\ ~AnyPending) =>
    IF objRef.scheme = "weave"
      THEN output.box.text =
             objRef.artifactName \o <<":">>
               \o (IF ResolvedIndex # undefinedIndex
                     THEN <<"v", DigitChar(ResolvedIndex)>>
                     ELSE SubSeq(objRef.artifactVersion, 1,
                                 IF Len(objRef.artifactVersion) < 6
                                   THEN Len(objRef.artifactVersion) ELSE 6))
               \o (IF objRef.artifactRefExtra \in {Undefined, <<>>}
                     THEN <<>>
                     ELSE <<"/">> \o objRef.artifactRefExtra)
      ELSE output.box.text =
             objRef.artifactName \o <<":">> \o objRef.artifactVersion

C8_Witness ==
  /\ mounted
  /\ ~AnyPending
  /\ objRef.scheme = "weave"
  /\ objRef.weaveKind = "op"
  /\ opQ.result = 1
  /\ Len(objRef.artifactVersion) > 6
  /\ output.box.text = objRef.artifactName \o <<":", "v", "1">>

\* C9: the weave-object chip's icon is fixed by the root type name:
\* Dataset -> Table, Model -> Model, List -> List, OpDef -> JobProgramCode,
\* anything else (also 'unknown' while the type lookup is pending or gave
\* nothing) -> CubeContainer; the root type of a type is the last ancestor
\* before 'Object'; a reference of kind 'op' always has root type OpDef.
C9_IconOfRootType ==
  (mounted /\ objRef.scheme = "weave") =>
    LET n == output.rootTypeName
        icon == output.box.icon
        t == typeQ.result
    IN  /\ n = "Dataset" => icon = "Table"
        /\ n = "Model" => icon = "Model"
        /\ n = "List" => icon = "List"
        /\ n = "OpDef" => icon = "JobProgramCode"
        /\ n \notin {"Dataset", "Model", "List", "OpDef"} =>
             icon = "CubeContainer"
        /\ objRef.weaveKind = "op" => n = "OpDef"
        /\ (objRef.weaveKind # "op"
              /\ (typeQ.status = "loading" \/ t = <<>>)) =>
             (n = "unknown" /\ icon = "CubeContainer")
        /\ (objRef.weaveKind # "op" /\ typeQ.status = "done" /\ t # <<>>) =>
             \E i \in 1..Len(t) :
               /\ t[i] = n
               /\ i = Len(t) \/ t[i + 1] = "Object"
               /\ \A j \in 1..(i - 1) : t[j + 1] # "Object"

C9_Witness ==
  /\ mounted
  /\ objRef.scheme = "weave"
  /\ objRef.weaveKind = "op"
  /\ typeQ.result = <<"Dataset", "Object">>
  /\ output.box.icon = "JobProgramCode"

====
